---- MODULE Spec2Model ----
(***************************************************************************)
(* Model of inc/async.h: the dynamic async_for_each(begin, end, f,         *)
(* threads, progress), the compile-time async_for_each<T, N0, Nn, Ns,      *)
(* threads>(f) with its kernel async_for_each_index, and the compile-time  *)
(* partition chunk_of_sequence / make_stepped_sequence.                    *)
(*                                                                         *)
(* Atomics are modelled sequentially consistent, one load / store /        *)
(* fetch_add per step.  An iterator of the dynamic range is the position   *)
(* 0..size it points at.  An exception is the pair <<who threw, where>>.   *)
(*                                                                         *)
(* [[assume(!abort.load())]] is undefined behaviour when it is reached     *)
(* with abort set.  The build either keeps the `if (abort.load())` test    *)
(* that follows it or uses the assumption to drop that test; the field     *)
(* assume_elided of the call record says which build is running.           *)
(***************************************************************************)
EXTENDS Integers, Sequences, FiniteSets, TLC

\* ---- bounds of the model ----
MaxSize == 3          \* largest dynamic range / compile-time index count
MaxThreads == 2       \* largest requested thread count
MaxThrows == 2        \* at most this many positions at which f throws
MaxStart == 1         \* largest compile-time start N0
MaxStep == 2          \* largest compile-time step Ns
SizeMod == 1024       \* size_t arithmetic wraps modulo SizeMod (scaled 2^64)

Workers == 0 .. (MaxThreads - 1)

NoEx == <<"none", 0>>
NoThread == -1
Min(a, b) == IF a < b THEN a ELSE b

VARIABLES
    call,             \* the arguments of the call and the build (constant)
    cpc,              \* calling thread: position in async_for_each
    i,                \* calling thread: loop variable of launch / join loop
    threads,          \* threads after the clamp of line 136
    chunk_size,       \* size / threads
    chunk_begin,      \* iterator chunk_begin of the partition loop
    result,           \* NoEx: nothing raised (yet); else the exception raised
    advanced,         \* iterator increments made by the partition loop
    wpc,              \* per worker: position in the worker lambda
    it,               \* per worker: loop iterator (dynamic) / pack position
    local_chunk_begin,\* per worker: begin iterator of its chunk
    local_chunk_end,  \* per worker: end iterator / length of the pack
    idx,              \* per worker: size_t idx
    cur_ex,           \* per worker: std::current_exception() in its handler
    prev_completed,   \* per worker: result of completed.fetch_add
    abort,            \* std::atomic<bool> abort
    completed,        \* std::atomic<size_t> completed
    ex_ptr,           \* std::exception_ptr ex_ptr (NoEx = nullptr)
    ex_mutex,         \* std::mutex ex_mutex: the holder, or NoThread
    calls,            \* history: per worker, its invocations of f, in order
    sink,             \* history: the invocations of progress, in order
    abort_calls,      \* history: per worker, invocations of f started
                      \* while abort was already true
    lockers,          \* history: the workers whose handler got ex_mutex
    chunks,           \* the chunk_of_sequence instantiations made so far
    env,              \* the environment variable ASYNC_NUM_THREADS
    static_threads,   \* static size_t _threads of runtime_threads()
    rt_log,           \* history: the results of runtime_threads(), in order
    first_env         \* history: the environment at its first call

cvars == <<cpc, i, threads, chunk_size, chunk_begin, result, advanced>>
wvars == <<wpc, it, local_chunk_begin, local_chunk_end, idx, cur_ex,
           prev_completed>>
svars == <<abort, completed, ex_ptr, ex_mutex>>
hvars == <<calls, sink, abort_calls, lockers>>
evars == <<env, static_threads, rt_log, first_env>>
vars == <<call, cvars, wvars, svars, hvars, chunks, evars>>

\* ---- the compile-time partition (pure) ----

\* size_t subtraction, wrapping
SubMod(a, b) == (a - b + SizeMod) % SizeMod

\* chunk_of_sequence<T, N0, Nn, Ns, Ci, Cn>::total
total(n0, nn, ns) == ((SubMod(nn, n0) + ns - 1) % SizeMod) \div ns

\* chunk_of_sequence::chunk_size
seq_chunk_size(n0, nn, ns, cn) ==
    ((total(n0, nn, ns) + cn - 1) % SizeMod) \div cn

\* chunk_of_sequence::offset
offset(n0, nn, ns, c, cn) == (c * seq_chunk_size(n0, nn, ns, cn)) % SizeMod

\* chunk_of_sequence::count
count(n0, nn, ns, c, cn) ==
    IF (offset(n0, nn, ns, c, cn) + seq_chunk_size(n0, nn, ns, cn)) % SizeMod
          > total(n0, nn, ns)
    THEN SubMod(total(n0, nn, ns), offset(n0, nn, ns, c, cn))
    ELSE seq_chunk_size(n0, nn, ns, cn)

\* chunk_of_sequence::chunk_start
chunk_start(n0, nn, ns, c, cn) == (n0 + offset(n0, nn, ns, c, cn) * ns) % SizeMod

\* chunk_of_sequence::chunk_end
chunk_end(n0, nn, ns, c, cn) ==
    (chunk_start(n0, nn, ns, c, cn) + count(n0, nn, ns, c, cn) * ns) % SizeMod

\* make_stepped_sequence<T, N0, Nn, Ns>: length of the integer_sequence
stepped_length(n0, nn, ns) == ((SubMod(nn, n0) + ns - 1) % SizeMod) \div ns

\* make_stepped_sequence<T, N0, Nn, Ns>: k-th member, N0 + Is * Ns
stepped_at(n0, ns, k) == (n0 + k * ns) % SizeMod

\* chunk_of_sequence::type, as the length of the pack and its k-th member
chunk_length(n0, nn, ns, c, cn) ==
    stepped_length(chunk_start(n0, nn, ns, c, cn), chunk_end(n0, nn, ns, c, cn), ns)

chunk_at(n0, nn, ns, c, cn, k) == stepped_at(chunk_start(n0, nn, ns, c, cn), ns, k)

\* for_each_index<T, Ns = chunk_start>(chunk{}, f, Is): the argument f gets
\* for the k-th member I of the pack is I + Ns
for_each_index_arg(n0, nn, ns, c, cn, k) ==
    (chunk_at(n0, nn, ns, c, cn, k) + chunk_start(n0, nn, ns, c, cn)) % SizeMod

\* the pack of every worker can be instantiated: no count wraps around
Instantiable(n0, nn, ns, cn) ==
    /\ n0 <= nn
    /\ \A c \in 0 .. (cn - 1) : offset(n0, nn, ns, c, cn) <= total(n0, nn, ns)

\* ---- the calls the model makes ----

ThrowSets(n) == {s \in SUBSET (0 .. (n - 1)) : Cardinality(s) <= MaxThrows}

DynamicCalls ==
    UNION { UNION { {[mode |-> "dynamic", size |-> n, threads |-> t,
                      random_access |-> ra, f_throws |-> ft,
                      progress_throws |-> pt, assume_elided |-> ae,
                      N0 |-> 0, Nn |-> 0, Ns |-> 1, Cn |-> 0]
                     : ra \in BOOLEAN, ae \in BOOLEAN, ft \in ThrowSets(n),
                       pt \in {{}} \cup {{v} : v \in 1 .. Min(t, n)}}
                  : t \in 0 .. MaxThreads}
          : n \in 0 .. MaxSize}

StaticCalls ==
    UNION { UNION { {[mode |-> "static", size |-> 0, threads |-> 0,
                      random_access |-> TRUE, f_throws |-> ft,
                      progress_throws |-> {}, assume_elided |-> ae,
                      N0 |-> n0, Nn |-> nn, Ns |-> ns, Cn |-> cn]
                     : ae \in BOOLEAN, ft \in ThrowSets(total(n0, nn, ns)),
                       cn \in {c \in 0 .. MaxThreads : Instantiable(n0, nn, ns, c)}}
                  : nn \in {m \in n0 .. (n0 + MaxSize * ns) :
                              total(n0, m, ns) <= MaxSize}}
          : n0 \in 0 .. MaxStart, ns \in 1 .. MaxStep}

\* the state on entry to a call, before line 132 / line 308
Fresh ==
    /\ cpc = "entry"
    /\ i = 0
    /\ threads = 0
    /\ chunk_size = 0
    /\ chunk_begin = 0
    /\ result = NoEx
    /\ advanced = 0
    /\ wpc = [w \in Workers |-> "idle"]
    /\ it = [w \in Workers |-> 0]
    /\ local_chunk_begin = [w \in Workers |-> 0]
    /\ local_chunk_end = [w \in Workers |-> 0]
    /\ idx = [w \in Workers |-> 0]
    /\ cur_ex = [w \in Workers |-> NoEx]
    /\ prev_completed = [w \in Workers |-> 0]
    /\ abort = FALSE
    /\ completed = 0
    /\ ex_ptr = NoEx
    /\ ex_mutex = NoThread
    /\ calls = [w \in Workers |-> <<>>]
    /\ sink = <<>>
    /\ abort_calls = [w \in Workers |-> 0]
    /\ lockers = <<>>
    /\ chunks = <<>>

\* the process before the first call of runtime_threads()
NoEnv == <<"unset">>

ProcessStart ==
    /\ env = NoEnv
    /\ static_threads = 0
    /\ rt_log = <<>>
    /\ first_env = NoEnv

Init ==
    /\ call \in DynamicCalls \cup StaticCalls
    /\ Fresh
    /\ ProcessStart

\* ---- dynamic async_for_each: the calling thread ----

\* line 137 with threads = 0: the unsigned division size / threads is
\* undefined.  Where the divide instruction traps the process is killed;
\* where it yields a value the call goes on with no future and no
\* iteration of either loop, whatever that value is.
DivisionByZero ==
    \/ /\ cpc' = "crashed"
       /\ UNCHANGED <<threads, chunk_size>>
    \/ /\ cpc' = "final"
       /\ threads' = 0
       /\ chunk_size' = 0

\* Entry without the clamp of line 136
Entry_no_clamp ==
    /\ call.mode = "dynamic"
    /\ cpc = "entry"
    /\ IF call.size = 0
       THEN /\ cpc' = "returned"
            /\ UNCHANGED <<threads, chunk_size>>
       ELSE IF call.threads = 0
       THEN DivisionByZero
       ELSE /\ threads' = call.threads
            /\ chunk_size' = call.size \div call.threads
            /\ cpc' = "launch"
    /\ UNCHANGED <<call, chunks, evars, i, chunk_begin, result, advanced,
                   wvars, svars,
                   hvars>>

\* Entry without the empty-range return of line 134: size / threads then
\* divides by zero
Entry_no_empty_return ==
    /\ call.mode = "dynamic"
    /\ cpc = "entry"
    /\ IF Min(call.threads, call.size) = 0
       THEN DivisionByZero
       ELSE /\ threads' = Min(call.threads, call.size)
            /\ chunk_size' = call.size \div Min(call.threads, call.size)
            /\ cpc' = "launch"
    /\ UNCHANGED <<call, chunks, evars, i, chunk_begin, result, advanced,
                   wvars, svars,
                   hvars>>

\* lines 132-146: size, the empty-range return, the clamp, chunk_size (the
\* division of line 137 is undefined when the clamped threads is 0)
Entry ==
    /\ call.mode = "dynamic"
    /\ cpc = "entry"
    /\ IF call.size = 0
       THEN /\ cpc' = "returned"
            /\ UNCHANGED <<threads, chunk_size>>
       ELSE IF Min(call.threads, call.size) = 0
       THEN DivisionByZero
       ELSE /\ threads' = Min(call.threads, call.size)
            /\ chunk_size' = call.size \div Min(call.threads, call.size)
            /\ cpc' = "launch"
    /\ UNCHANGED <<call, chunks, evars, i, chunk_begin, result, advanced,
                   wvars, svars,
                   hvars>>

\* advance with a pre-decrement: while (--steps && chunk_end != end)
RECURSIVE advance_pre_decrement(_, _, _)
advance_pre_decrement(ce, steps, end) ==
    IF steps - 1 # 0 /\ ce # end
    THEN advance_pre_decrement(ce + 1, steps - 1, end)
    ELSE ce

\* line 160: while (steps-- && chunk_end != end) ++chunk_end;
RECURSIVE advance(_, _, _)
advance(ce, steps, end) ==
    IF steps # 0 /\ ce # end THEN advance(ce + 1, steps - 1, end) ELSE ce

\* next_chunk_end with a last chunk that does not absorb the remainder
next_chunk_end_no_remainder ==
    IF call.random_access
    THEN chunk_begin + chunk_size
    ELSE advance(chunk_begin, chunk_size, call.size)

\* lines 150-161: chunk_end of iteration i
next_chunk_end ==
    IF call.random_access
    THEN IF i = threads - 1 THEN call.size ELSE chunk_begin + chunk_size
    ELSE advance(chunk_begin, IF i = threads - 1 THEN call.size ELSE chunk_size,
                 call.size)

\* lines 165-166: chunk_len and idx_offset = i * chunk_len
idx_offset == i * (next_chunk_end - chunk_begin)

\* line 160: the ++chunk_end of the while loop in iteration i; the
\* random-access path of line 152 does no increment
boundary_steps ==
    IF call.random_access THEN 0 ELSE next_chunk_end - chunk_begin

\* line 165: std::ranges::distance(local_chunk_begin, local_chunk_end); the
\* iterators of the forward path are not sized, so distance increments a
\* copy of local_chunk_begin until it reaches local_chunk_end
distance_steps ==
    IF call.random_access THEN 0 ELSE next_chunk_end - chunk_begin

\* lines 148-214: one iteration of the partition loop; the worker it
\* launches starts at the top of its try block with idx = idx_offset
Launch ==
    /\ call.mode = "dynamic"
    /\ cpc = "launch"
    /\ wpc' = [wpc EXCEPT ![i] = "loop"]
    /\ it' = [it EXCEPT ![i] = chunk_begin]
    /\ local_chunk_begin' = [local_chunk_begin EXCEPT ![i] = chunk_begin]
    /\ local_chunk_end' = [local_chunk_end EXCEPT ![i] = next_chunk_end]
    /\ idx' = [idx EXCEPT ![i] = idx_offset]
    /\ chunk_begin' = next_chunk_end
    /\ advanced' = advanced + boundary_steps + distance_steps
    /\ IF i + 1 < threads
       THEN /\ i' = i + 1
            /\ cpc' = "launch"
       ELSE /\ i' = 0
            /\ cpc' = "join"
    /\ UNCHANGED <<call, chunks, evars, threads, chunk_size, result, cur_ex,
                   prev_completed, svars, hvars>>

\* Join that does not wait for the worker
Join_no_wait ==
    /\ call.mode = "dynamic"
    /\ cpc = "join"
    /\ IF i + 1 < threads
       THEN /\ i' = i + 1
            /\ cpc' = "join"
       ELSE /\ i' = 0
            /\ cpc' = "final"
    /\ UNCHANGED <<call, chunks, evars, threads, chunk_size, advanced,
                   chunk_begin,
                   result, wvars, svars, hvars>>

\* lines 216-235: fut.get() of future i returns once worker i has finished;
\* the worker lambda catches everything, so get() never throws
Join ==
    /\ call.mode = "dynamic"
    /\ cpc = "join"
    /\ wpc[i] = "done"
    /\ IF i + 1 < threads
       THEN /\ i' = i + 1
            /\ cpc' = "join"
       ELSE /\ i' = 0
            /\ cpc' = "final"
    /\ UNCHANGED <<call, chunks, evars, threads, chunk_size, advanced,
                   chunk_begin,
                   result, wvars, svars, hvars>>

\* lines 237-240: final_lock, rethrow ex_ptr or return
Final ==
    /\ call.mode = "dynamic"
    /\ cpc = "final"
    /\ ex_mutex = NoThread
    /\ IF ex_ptr # NoEx
       THEN /\ cpc' = "raised"
            /\ result' = ex_ptr
       ELSE /\ cpc' = "returned"
            /\ result' = NoEx
    /\ UNCHANGED <<call, chunks, evars, i, threads, chunk_size, advanced,
                   chunk_begin,
                   wvars, svars, hvars>>

\* ---- dynamic async_for_each: worker w ----

\* lines 180-183: loop condition, then the abort test before the element.
\* With abort set the [[assume]] of line 182 is violated: the build that
\* dropped the test of line 183 goes on to the element, the other breaks.
LoopCheck(w) ==
    /\ call.mode = "dynamic"
    /\ wpc[w] = "loop"
    /\ wpc' = [wpc EXCEPT ![w] =
                 IF it[w] = local_chunk_end[w] THEN "fetch_add"
                 ELSE IF abort /\ ~call.assume_elided THEN "fetch_add"
                 ELSE "call"]
    /\ UNCHANGED <<call, chunks, evars, cvars, it, local_chunk_begin,
                   local_chunk_end, idx, cur_ex, prev_completed, svars,
                   hvars>>

\* Invoke that goes back to the same element after f has thrown
Invoke_retry(w) ==
    /\ call.mode = "dynamic"
    /\ wpc[w] = "call"
    /\ calls' = [calls EXCEPT ![w] =
                   Append(@, [elem |-> it[w], index |-> idx[w], thread_id |-> w])]
    /\ abort_calls' = [abort_calls EXCEPT ![w] = @ + (IF abort THEN 1 ELSE 0)]
    /\ idx' = [idx EXCEPT ![w] = @ + 1]
    /\ IF it[w] \in call.f_throws
       THEN /\ cur_ex' = [cur_ex EXCEPT ![w] = <<"f", it[w]>>]
            /\ wpc' = [wpc EXCEPT ![w] = "loop"]
            /\ it' = it
       ELSE /\ it' = [it EXCEPT ![w] = @ + 1]
            /\ wpc' = [wpc EXCEPT ![w] = "loop"]
            /\ cur_ex' = cur_ex
    /\ UNCHANGED <<call, chunks, evars, cvars, local_chunk_begin,
                   local_chunk_end, prev_completed, svars, sink, lockers>>

\* Invoke without the ++it of the loop
Invoke_no_advance(w) ==
    /\ call.mode = "dynamic"
    /\ wpc[w] = "call"
    /\ calls' = [calls EXCEPT ![w] =
                   Append(@, [elem |-> it[w], index |-> idx[w], thread_id |-> w])]
    /\ abort_calls' = [abort_calls EXCEPT ![w] = @ + (IF abort THEN 1 ELSE 0)]
    /\ idx' = [idx EXCEPT ![w] = @ + 1]
    /\ IF it[w] \in call.f_throws
       THEN /\ cur_ex' = [cur_ex EXCEPT ![w] = <<"f", it[w]>>]
            /\ wpc' = [wpc EXCEPT ![w] = "catch"]
       ELSE /\ wpc' = [wpc EXCEPT ![w] = "loop"]
            /\ cur_ex' = cur_ex
    /\ UNCHANGED <<call, chunks, evars, cvars, it, local_chunk_begin,
                   local_chunk_end, prev_completed, svars, sink, lockers>>

\* lines 185-192 and ++it: f(*it, idx++, i)
Invoke(w) ==
    /\ call.mode = "dynamic"
    /\ wpc[w] = "call"
    /\ calls' = [calls EXCEPT ![w] =
                   Append(@, [elem |-> it[w], index |-> idx[w], thread_id |-> w])]
    /\ abort_calls' = [abort_calls EXCEPT ![w] = @ + (IF abort THEN 1 ELSE 0)]
    /\ idx' = [idx EXCEPT ![w] = @ + 1]
    /\ IF it[w] \in call.f_throws
       THEN /\ cur_ex' = [cur_ex EXCEPT ![w] = <<"f", it[w]>>]
            /\ wpc' = [wpc EXCEPT ![w] = "catch"]
            /\ it' = it
       ELSE /\ it' = [it EXCEPT ![w] = @ + 1]
            /\ wpc' = [wpc EXCEPT ![w] = "loop"]
            /\ cur_ex' = cur_ex
    /\ UNCHANGED <<call, chunks, evars, cvars, local_chunk_begin,
                   local_chunk_end, prev_completed, svars, sink, lockers>>

\* FetchAdd that reads the counter and never increments it
FetchAdd_load(w) ==
    /\ call.mode = "dynamic"
    /\ wpc[w] = "fetch_add"
    /\ prev_completed' = [prev_completed EXCEPT ![w] = completed]
    /\ wpc' = [wpc EXCEPT ![w] = "progress"]
    /\ UNCHANGED <<call, chunks, evars, cvars, it, local_chunk_begin,
                   local_chunk_end, idx, cur_ex, svars, hvars>>

\* line 195: completed.fetch_add(1)
FetchAdd(w) ==
    /\ call.mode = "dynamic"
    /\ wpc[w] = "fetch_add"
    /\ prev_completed' = [prev_completed EXCEPT ![w] = completed]
    /\ completed' = completed + 1
    /\ wpc' = [wpc EXCEPT ![w] = "progress"]
    /\ UNCHANGED <<call, chunks, evars, cvars, it, local_chunk_begin,
                   local_chunk_end, idx, cur_ex, abort, ex_ptr, ex_mutex,
                   hvars>>

\* Progress outside any handler that records: an exception of the sink is
\* swallowed and the worker ends
Progress_swallow(w) ==
    /\ call.mode = "dynamic"
    /\ wpc[w] = "progress"
    /\ sink' = Append(sink, [value |-> prev_completed[w] + 1, thread_id |-> w,
                             recorded |-> ex_ptr # NoEx])
    /\ IF (prev_completed[w] + 1) \in call.progress_throws
       THEN /\ cur_ex' = [cur_ex EXCEPT ![w] = <<"progress", prev_completed[w] + 1>>]
            /\ wpc' = [wpc EXCEPT ![w] = "done"]
       ELSE /\ wpc' = [wpc EXCEPT ![w] = "done"]
            /\ cur_ex' = cur_ex
    /\ UNCHANGED <<call, chunks, evars, cvars, it, local_chunk_begin,
                   local_chunk_end, idx, prev_completed, svars, calls,
                   abort_calls, lockers>>

\* Progress that passes prev_completed instead of prev_completed + 1
Progress_prev(w) ==
    /\ call.mode = "dynamic"
    /\ wpc[w] = "progress"
    /\ sink' = Append(sink, [value |-> prev_completed[w], thread_id |-> w,
                             recorded |-> ex_ptr # NoEx])
    /\ IF prev_completed[w] \in call.progress_throws
       THEN /\ cur_ex' = [cur_ex EXCEPT ![w] = <<"progress", prev_completed[w]>>]
            /\ wpc' = [wpc EXCEPT ![w] = "catch"]
       ELSE /\ wpc' = [wpc EXCEPT ![w] = "done"]
            /\ cur_ex' = cur_ex
    /\ UNCHANGED <<call, chunks, evars, cvars, it, local_chunk_begin,
                   local_chunk_end, idx, prev_completed, svars, calls,
                   abort_calls, lockers>>

\* line 196: progress(prev_completed + 1)
Progress(w) ==
    /\ call.mode = "dynamic"
    /\ wpc[w] = "progress"
    /\ sink' = Append(sink, [value |-> prev_completed[w] + 1, thread_id |-> w,
                             recorded |-> ex_ptr # NoEx])
    /\ IF (prev_completed[w] + 1) \in call.progress_throws
       THEN /\ cur_ex' = [cur_ex EXCEPT ![w] = <<"progress", prev_completed[w] + 1>>]
            /\ wpc' = [wpc EXCEPT ![w] = "catch"]
       ELSE /\ wpc' = [wpc EXCEPT ![w] = "done"]
            /\ cur_ex' = cur_ex
    /\ UNCHANGED <<call, chunks, evars, cvars, it, local_chunk_begin,
                   local_chunk_end, idx, prev_completed, svars, calls,
                   abort_calls, lockers>>

\* Catch with the abort test inverted: if (abort.load()) { lock ... }
Catch_inverted(w) ==
    /\ call.mode = "dynamic"
    /\ wpc[w] = "catch"
    /\ wpc' = [wpc EXCEPT ![w] = IF abort THEN "lock" ELSE "done"]
    /\ UNCHANGED <<call, chunks, evars, cvars, it, local_chunk_begin,
                   local_chunk_end, idx, cur_ex, prev_completed, svars,
                   hvars>>

\* lines 198-201: catch (...), the abort test of the handler.  With abort
\* set the [[assume]] of line 200 is violated: the build that dropped the
\* test of line 201 goes on to the lock.
Catch(w) ==
    /\ call.mode = "dynamic"
    /\ wpc[w] = "catch"
    /\ wpc' = [wpc EXCEPT ![w] =
                 IF abort /\ ~call.assume_elided THEN "done" ELSE "lock"]
    /\ UNCHANGED <<call, chunks, evars, cvars, it, local_chunk_begin,
                   local_chunk_end, idx, cur_ex, prev_completed, svars,
                   hvars>>

\* line 203: std::lock_guard lock(ex_mutex)
Lock(w) ==
    /\ call.mode = "dynamic"
    /\ wpc[w] = "lock"
    /\ ex_mutex = NoThread
    /\ ex_mutex' = w
    /\ lockers' = Append(lockers, w)
    /\ wpc' = [wpc EXCEPT ![w] = "store"]
    /\ UNCHANGED <<call, chunks, evars, cvars, it, local_chunk_begin,
                   local_chunk_end, idx, cur_ex, prev_completed, abort,
                   completed, ex_ptr, calls, sink, abort_calls>>

\* StoreEx without the test of line 204: the cell is overwritten
StoreEx_overwrite(w) ==
    /\ call.mode = "dynamic"
    /\ wpc[w] = "store"
    /\ ex_ptr' = cur_ex[w]
    /\ wpc' = [wpc EXCEPT ![w] = "set_abort"]
    /\ UNCHANGED <<call, chunks, evars, cvars, it, local_chunk_begin,
                   local_chunk_end, idx, cur_ex, prev_completed, abort,
                   completed, ex_mutex, hvars>>

\* lines 204-206: if (!ex_ptr) ex_ptr = std::current_exception(); a worker
\* that finds the cell taken leaves the handler and releases the mutex
StoreEx(w) ==
    /\ call.mode = "dynamic"
    /\ wpc[w] = "store"
    /\ IF ex_ptr = NoEx
       THEN /\ ex_ptr' = cur_ex[w]
            /\ wpc' = [wpc EXCEPT ![w] = "set_abort"]
            /\ ex_mutex' = ex_mutex
       ELSE /\ ex_ptr' = ex_ptr
            /\ wpc' = [wpc EXCEPT ![w] = "done"]
            /\ ex_mutex' = NoThread
    /\ UNCHANGED <<call, chunks, evars, cvars, it, local_chunk_begin,
                   local_chunk_end, idx, cur_ex, prev_completed, abort,
                   completed, hvars>>

\* SetAbort without abort.store(true)
SetAbort_no_store(w) ==
    /\ call.mode = "dynamic"
    /\ wpc[w] = "set_abort"
    /\ abort' = abort
    /\ ex_mutex' = NoThread
    /\ wpc' = [wpc EXCEPT ![w] = "done"]
    /\ UNCHANGED <<call, chunks, evars, cvars, it, local_chunk_begin,
                   local_chunk_end, idx, cur_ex, prev_completed, completed,
                   ex_ptr, hvars>>

\* lines 207-210: abort.store(true), end of the lock_guard's scope
SetAbort(w) ==
    /\ call.mode = "dynamic"
    /\ wpc[w] = "set_abort"
    /\ abort' = TRUE
    /\ ex_mutex' = NoThread
    /\ wpc' = [wpc EXCEPT ![w] = "done"]
    /\ UNCHANGED <<call, chunks, evars, cvars, it, local_chunk_begin,
                   local_chunk_end, idx, cur_ex, prev_completed, completed,
                   ex_ptr, hvars>>

\* ---- compile-time async_for_each / async_for_each_index ----

\* lines 306-348: abort, ex_ptr, ex_mutex, then one call_async per ordinal
\* Is of std::make_index_sequence<threads>; worker Is starts at its try
IndexLaunch ==
    /\ call.mode = "static"
    /\ cpc = "entry"
    /\ threads' = call.Cn
    /\ wpc' = [w \in Workers |-> IF w < call.Cn THEN "start" ELSE "idle"]
    /\ local_chunk_end' = [w \in Workers |->
         IF w < call.Cn
         THEN chunk_length(call.N0, call.Nn, call.Ns, w, call.Cn)
         ELSE 0]
    /\ i' = 0
    /\ cpc' = IF call.Cn = 0 THEN "final" ELSE "join"
    /\ UNCHANGED <<call, chunks, evars, chunk_size, advanced, chunk_begin,
                   result, it,
                   local_chunk_begin, idx, cur_ex, prev_completed, svars,
                   hvars>>

\* lines 325-331: the abort test at the start of the worker.  With abort
\* set the [[assume]] of line 327 is violated: the build that dropped the
\* test of line 328 goes on to for_each_index.
IndexStart(w) ==
    /\ call.mode = "static"
    /\ wpc[w] = "start"
    /\ wpc' = [wpc EXCEPT ![w] =
                 IF abort /\ ~call.assume_elided THEN "done"
                 ELSE IF local_chunk_end[w] = 0 THEN "done"
                 ELSE "call"]
    /\ UNCHANGED <<call, chunks, evars, cvars, it, local_chunk_begin,
                   local_chunk_end, idx, cur_ex, prev_completed, svars,
                   hvars>>

\* lines 332, 284-299: the next member of the fold of for_each_index,
\* f(I + Ns, thread_id); the fold has no abort test between members
IndexInvoke(w) ==
    /\ call.mode = "static"
    /\ wpc[w] = "call"
    /\ LET ord == offset(call.N0, call.Nn, call.Ns, w, call.Cn) + it[w]
       IN /\ calls' = [calls EXCEPT ![w] = Append(@,
                 [elem |-> ord,
                  index |-> for_each_index_arg(call.N0, call.Nn, call.Ns, w,
                                               call.Cn, it[w]),
                  thread_id |-> w])]
          /\ IF ord \in call.f_throws
             THEN /\ cur_ex' = [cur_ex EXCEPT ![w] = <<"f", ord>>]
                  /\ wpc' = [wpc EXCEPT ![w] = "catch"]
                  /\ it' = it
             ELSE /\ it' = [it EXCEPT ![w] = @ + 1]
                  /\ wpc' = [wpc EXCEPT ![w] =
                       IF it[w] + 1 = local_chunk_end[w] THEN "done" ELSE "call"]
                  /\ cur_ex' = cur_ex
    /\ abort_calls' = [abort_calls EXCEPT ![w] = @ + (IF abort THEN 1 ELSE 0)]
    /\ UNCHANGED <<call, chunks, evars, cvars, local_chunk_begin,
                   local_chunk_end, idx, prev_completed, svars, sink,
                   lockers>>

\* lines 334-337: catch (...), the abort test of the handler (the
\* [[assume]] of line 336 as in the dynamic handler)
IndexCatch(w) ==
    /\ call.mode = "static"
    /\ wpc[w] = "catch"
    /\ wpc' = [wpc EXCEPT ![w] =
                 IF abort /\ ~call.assume_elided THEN "done" ELSE "lock"]
    /\ UNCHANGED <<call, chunks, evars, cvars, it, local_chunk_begin,
                   local_chunk_end, idx, cur_ex, prev_completed, svars,
                   hvars>>

\* line 339: std::lock_guard lock(ex_mutex)
IndexLock(w) ==
    /\ call.mode = "static"
    /\ wpc[w] = "lock"
    /\ ex_mutex = NoThread
    /\ ex_mutex' = w
    /\ lockers' = Append(lockers, w)
    /\ wpc' = [wpc EXCEPT ![w] = "store"]
    /\ UNCHANGED <<call, chunks, evars, cvars, it, local_chunk_begin,
                   local_chunk_end, idx, cur_ex, prev_completed, abort,
                   completed, ex_ptr, calls, sink, abort_calls>>

\* lines 340-342: if (!ex_ptr) ex_ptr = std::current_exception()
IndexStoreEx(w) ==
    /\ call.mode = "static"
    /\ wpc[w] = "store"
    /\ IF ex_ptr = NoEx
       THEN /\ ex_ptr' = cur_ex[w]
            /\ wpc' = [wpc EXCEPT ![w] = "set_abort"]
            /\ ex_mutex' = ex_mutex
       ELSE /\ ex_ptr' = ex_ptr
            /\ wpc' = [wpc EXCEPT ![w] = "done"]
            /\ ex_mutex' = NoThread
    /\ UNCHANGED <<call, chunks, evars, cvars, it, local_chunk_begin,
                   local_chunk_end, idx, cur_ex, prev_completed, abort,
                   completed, hvars>>

\* lines 343-346: abort.store(true), end of the lock_guard's scope
IndexSetAbort(w) ==
    /\ call.mode = "static"
    /\ wpc[w] = "set_abort"
    /\ abort' = TRUE
    /\ ex_mutex' = NoThread
    /\ wpc' = [wpc EXCEPT ![w] = "done"]
    /\ UNCHANGED <<call, chunks, evars, cvars, it, local_chunk_begin,
                   local_chunk_end, idx, cur_ex, prev_completed, completed,
                   ex_ptr, hvars>>

\* lines 350-368: std::get<Is>(futures).get(), in the order of the fold
IndexJoin ==
    /\ call.mode = "static"
    /\ cpc = "join"
    /\ wpc[i] = "done"
    /\ IF i + 1 < threads
       THEN /\ i' = i + 1
            /\ cpc' = "join"
       ELSE /\ i' = 0
            /\ cpc' = "final"
    /\ UNCHANGED <<call, chunks, evars, threads, chunk_size, advanced,
                   chunk_begin,
                   result, wvars, svars, hvars>>

\* lines 370-373: final_lock, rethrow ex_ptr or return
IndexFinal ==
    /\ call.mode = "static"
    /\ cpc = "final"
    /\ ex_mutex = NoThread
    /\ IF ex_ptr # NoEx
       THEN /\ cpc' = "raised"
            /\ result' = ex_ptr
       ELSE /\ cpc' = "returned"
            /\ result' = NoEx
    /\ UNCHANGED <<call, chunks, evars, i, threads, chunk_size, advanced,
                   chunk_begin,
                   wvars, svars, hvars>>

Next ==
    \/ Entry
    \/ Launch
    \/ Join
    \/ Final
    \/ \E w \in Workers : LoopCheck(w)
    \/ \E w \in Workers : Invoke(w)
    \/ \E w \in Workers : FetchAdd(w)
    \/ \E w \in Workers : Progress(w)
    \/ \E w \in Workers : Catch(w)
    \/ \E w \in Workers : Lock(w)
    \/ \E w \in Workers : StoreEx(w)
    \/ \E w \in Workers : SetAbort(w)
    \/ IndexLaunch
    \/ IndexJoin
    \/ IndexFinal
    \/ \E w \in Workers : IndexStart(w)
    \/ \E w \in Workers : IndexInvoke(w)
    \/ \E w \in Workers : IndexCatch(w)
    \/ \E w \in Workers : IndexLock(w)
    \/ \E w \in Workers : IndexStoreEx(w)
    \/ \E w \in Workers : IndexSetAbort(w)

Spec == Init /\ [][Next]_vars

\* the steps of the calling thread and of the thread of worker w
CallerStep ==
    Entry \/ Launch \/ Join \/ Final \/ IndexLaunch \/ IndexJoin \/ IndexFinal

WorkerStep(w) ==
    \/ LoopCheck(w) \/ Invoke(w) \/ FetchAdd(w) \/ Progress(w)
    \/ Catch(w) \/ Lock(w) \/ StoreEx(w) \/ SetAbort(w)
    \/ IndexStart(w) \/ IndexInvoke(w)
    \/ IndexCatch(w) \/ IndexLock(w) \/ IndexStoreEx(w) \/ IndexSetAbort(w)

\* std::launch::async gives every worker a thread of its own; the scheduler
\* lets every thread that can take a step take one eventually
FairSpec ==
    /\ Spec
    /\ WF_vars(CallerStep)
    /\ \A w \in Workers : WF_vars(WorkerStep(w))

\* ---- the compile-time partition on its own ----

PartMaxTotal == 6     \* largest index count of the partition inputs
PartMaxThreads == 4   \* largest thread_count of the partition inputs

PartCall(n0, nn, ns, cn) ==
    [mode |-> "static", size |-> 0, threads |-> 0, random_access |-> TRUE,
     f_throws |-> {}, progress_throws |-> {}, assume_elided |-> FALSE,
     N0 |-> n0, Nn |-> nn, Ns |-> ns, Cn |-> cn]

PartCalls ==
    {PartCall(0, 100, 1, 3)} \cup
    UNION { {PartCall(n0, nn, ns, cn)
               : nn \in n0 .. (n0 + PartMaxTotal * ns), cn \in 1 .. PartMaxThreads}
          : n0 \in 0 .. MaxStart, ns \in 1 .. MaxStep }

InitPart ==
    /\ call \in PartCalls
    /\ Fresh
    /\ ProcessStart

\* line 330: chunk_of_sequence<T, N0, Nn, Ns, Is, chunk_count>::type for the
\* next ordinal Is = i
Instantiate ==
    /\ i < call.Cn
    /\ chunks' = Append(chunks,
         [offset |-> offset(call.N0, call.Nn, call.Ns, i, call.Cn),
          start |-> chunk_start(call.N0, call.Nn, call.Ns, i, call.Cn),
          count |-> count(call.N0, call.Nn, call.Ns, i, call.Cn),
          length |-> chunk_length(call.N0, call.Nn, call.Ns, i, call.Cn),
          members |-> {chunk_at(call.N0, call.Nn, call.Ns, i, call.Cn, k) :
                         k \in 0 .. (chunk_length(call.N0, call.Nn, call.Ns, i,
                                                  call.Cn) - 1)}])
    /\ i' = i + 1
    /\ UNCHANGED <<call, evars, cpc, threads, chunk_size, advanced,
                   chunk_begin, result,
                   wvars, svars, hvars>>

NextPart == Instantiate

SpecPart == InitPart /\ [][NextPart]_vars

\* ---- runtime_threads() ----

ASYNC_NUM_THREADS == 4    \* the compiled-in default, static constexpr threads
ASYNC_MIN_THREADS == 1
ASYNC_MAX_THREADS == 64

MaxEnvLen == 2        \* longest value of the environment variable
MaxRtCalls == 2       \* calls of runtime_threads() in one process

Chars == {"0", "1", "9", "a", "-"}
Digits == {"0", "1", "9"}
DigitVal(c) == CASE c = "0" -> 0 [] c = "1" -> 1 [] c = "9" -> 9

Max(a, b) == IF a > b THEN a ELSE b

\* the values the variable can have when it is set
EnvStrings == UNION {[1 .. n -> Chars] : n \in 0 .. MaxEnvLen}

\* std::atoi: the digits after an optional sign, up to the first character
\* that is no digit; 0 when there is none
RECURSIVE atoi_digits(_, _)
atoi_digits(str, acc) ==
    IF str = <<>> \/ Head(str) \notin Digits
    THEN acc
    ELSE atoi_digits(Tail(str), acc * 10 + DigitVal(Head(str)))

atoi(str) ==
    IF str # <<>> /\ Head(str) = "-"
    THEN 0 - atoi_digits(Tail(str), 0)
    ELSE atoi_digits(str, 0)

\* lines 73-87: the value the first call stores in _threads
resolved_threads ==
    IF env # NoEnv
    THEN Min(ASYNC_MAX_THREADS, Max(ASYNC_MIN_THREADS, atoi(env)))
    ELSE ASYNC_NUM_THREADS

\* lines 70-89: runtime_threads()
RuntimeThreads ==
    /\ Len(rt_log) < MaxRtCalls
    /\ static_threads' = IF static_threads = 0 THEN resolved_threads
                         ELSE static_threads
    /\ rt_log' = Append(rt_log, static_threads')
    /\ first_env' = IF rt_log = <<>> THEN env ELSE first_env
    /\ UNCHANGED <<call, chunks, env, cvars, wvars, svars, hvars>>

\* the process changes its environment: setenv / unsetenv
SetEnv(v) ==
    /\ v # env
    /\ env' = v
    /\ UNCHANGED <<call, chunks, static_threads, rt_log, first_env, cvars,
                   wvars, svars, hvars>>

InitEnv ==
    /\ call = PartCall(0, 0, 1, 1)
    /\ Fresh
    /\ env \in EnvStrings \cup {NoEnv}
    /\ static_threads = 0
    /\ rt_log = <<>>
    /\ first_env = NoEnv

NextEnv ==
    \/ RuntimeThreads
    \/ \E v \in EnvStrings \cup {NoEnv} : SetEnv(v)

SpecEnv == InitEnv /\ [][NextEnv]_vars

\* ---- what the claims speak about ----

Dynamic == call.mode = "dynamic"
Static == call.mode = "static"
Left == cpc \in {"returned", "raised"}
NoThrow == call.f_throws = {} /\ call.progress_throws = {}

\* actual_threads = min(requested_threads, size)
actual_threads == Min(call.threads, call.size)

\* every invocation of f made so far, as <<worker, number of the invocation>>
CallSlots == UNION {{<<w, k>> : k \in DOMAIN calls[w]} : w \in Workers}
CallAt(s) == calls[s[1]][s[2]]
Times(e) == Cardinality({s \in CallSlots : CallAt(s).elem = e})
TimesIndex(v) == Cardinality({s \in CallSlots : CallAt(s).index = v})

\* the exceptions thrown so far by f and by the progress sink
FThrown ==
    {<<"f", CallAt(s).elem>> :
        s \in {t \in CallSlots : CallAt(t).elem \in call.f_throws}}
SinkThrown ==
    {<<"progress", sink[k].value>> :
        k \in {j \in DOMAIN sink : sink[j].value \in call.progress_throws}}

\* ceil((end - start) / step) and the stepped index set, in plain integers
Total == (call.Nn - call.N0 + call.Ns - 1) \div call.Ns
SteppedSet == {call.N0 + k * call.Ns : k \in 0 .. (Total - 1)}

\* C1: dynamic call, non-empty range, t >= 1, nothing throws: when the call
\* has returned every element has been passed to f exactly once.
C1_ExactlyOnce ==
    (Dynamic /\ Left /\ call.size >= 1 /\ call.threads >= 1 /\ NoThrow) =>
        /\ cpc = "returned"
        /\ \A e \in 0 .. (call.size - 1) : Times(e) = 1
        /\ Cardinality(CallSlots) = call.size

C1_Witness ==
    /\ Dynamic /\ cpc = "returned" /\ NoThrow
    /\ call.size = 3 /\ call.threads = 2 /\ ~call.random_access
    /\ \A e \in 0 .. 2 : Times(e) = 1

\* C2: dynamic call with 1 <= t <= n: the index passed with an element is
\* the element's position, and on a successful run the per-worker index
\* sets are disjoint and their union is [0, n).
C2_IndexIsPosition ==
    (Dynamic /\ 1 <= call.threads /\ call.threads <= call.size) =>
        /\ \A s \in CallSlots : CallAt(s).index = CallAt(s).elem
        /\ (cpc = "returned" /\ NoThrow) =>
              \A v \in 0 .. (call.size - 1) : TimesIndex(v) = 1

\* C3: compile-time call, f never throws: the values passed to f are exactly
\* the members of {start, start+step, ...} below end, each exactly once.
C3_IndexValues ==
    (Static /\ call.Cn >= 1 /\ cpc = "returned" /\ call.f_throws = {}) =>
        /\ \A s \in CallSlots : CallAt(s).index \in SteppedSet
        /\ \A v \in SteppedSet : TimesIndex(v) = 1

\* C4 as stated: if an invocation of the callable threw, the call raises one
\* exception, one that a callable invocation threw; else it returns normally.
C4_Original ==
    Left =>
        IF FThrown # {}
        THEN cpc = "raised" /\ result \in FThrown
        ELSE cpc = "returned" /\ result = NoEx

\* C4 amended: if an invocation of the callable or of the progress sink
\* threw, the call raises exactly the exception stored in the failure cell,
\* which one of those invocations threw; if none threw it returns normally.
C4_RaisesThrown ==
    Left =>
        IF FThrown \cup SinkThrown # {}
        THEN cpc = "raised" /\ result = ex_ptr /\ result \in FThrown \cup SinkThrown
        ELSE cpc = "returned" /\ result = NoEx /\ ex_ptr = NoEx

C4_Witness ==
    /\ cpc = "raised"
    /\ FThrown # {}
    /\ SinkThrown # {}
    /\ result \in SinkThrown

\* C5: the caller has left the call only if every worker it launched has
\* finished; no worker is still running or can still invoke the callable.
C5_JoinedBeforeLeave ==
    Left => \A w \in Workers :
                /\ wpc[w] \in {"idle", "done"}
                /\ w < threads => wpc[w] = "done"

C5_Witness ==
    /\ cpc = "raised"
    /\ threads >= 2
    /\ result = <<"f", 0>>
    /\ Len(calls[1]) >= 1
    /\ \A w \in 0 .. (threads - 1) : wpc[w] = "done"

\* C6: dynamic call, nothing throws: the progress sink is invoked exactly
\* actual_threads times, once by each worker, with the values
\* 1 .. actual_threads, each exactly once.
C6_ProgressValues ==
    (Dynamic /\ Left /\ call.size >= 1 /\ NoThrow) =>
        /\ Len(sink) = actual_threads
        /\ \A v \in 1 .. actual_threads :
              Cardinality({k \in DOMAIN sink : sink[k].value = v}) = 1
        /\ \A w \in 0 .. (actual_threads - 1) :
              Cardinality({k \in DOMAIN sink : sink[k].thread_id = w}) = 1

C6_Witness ==
    /\ Dynamic /\ cpc = "returned" /\ NoThrow
    /\ call.threads = 2 /\ call.size = 3
    /\ Len(sink) = 2
    /\ sink[1].thread_id = 1

\* the chunk a position belongs to: chunks of floor(n / T) elements, the
\* last one up to the end of the range
ChunkOf(e) ==
    Min(e \div (call.size \div actual_threads), actual_threads - 1)

\* C7: every worker_id passed to the callable lies in [0, actual_threads),
\* the elements of one chunk get the same worker_id and different chunks
\* get different worker_ids.
C7_WorkerId ==
    Dynamic =>
        /\ \A s \in CallSlots : CallAt(s).thread_id \in 0 .. (actual_threads - 1)
        /\ \A s, t \in CallSlots :
              (ChunkOf(CallAt(s).elem) = ChunkOf(CallAt(t).elem))
                 <=> (CallAt(s).thread_id = CallAt(t).thread_id)

C7_Witness ==
    /\ Dynamic /\ Left
    /\ call.threads = 2 /\ call.size = 3
    /\ \E s, t \in CallSlots : CallAt(s).thread_id # CallAt(t).thread_id

\* C8: an empty dynamic range returns at once with no invocation of the
\* callable or the sink, no worker launched and no failure; a compile-time
\* call with start = end never invokes the callable and never fails.
C8_Empty ==
    /\ (Dynamic /\ call.size = 0) =>
          /\ cpc \in {"entry", "returned"}
          /\ \A w \in Workers : wpc[w] = "idle"
          /\ CallSlots = {} /\ sink = <<>>
          /\ result = NoEx /\ ex_ptr = NoEx /\ ~abort
    /\ (Static /\ call.N0 = call.Nn) =>
          /\ CallSlots = {}
          /\ cpc # "raised" /\ result = NoEx /\ ex_ptr = NoEx /\ ~abort

C8_Witness ==
    /\ Dynamic /\ call.size = 0 /\ call.threads = 2
    /\ cpc = "returned"

\* C9: the per-worker sequences of chunk_of_sequence are pairwise disjoint
\* and their union is the stepped index set {start + k*step : k < total};
\* for (0, 100, 1, 3) the sizes are 34, 34, 32.
C9_Partition ==
    (Static /\ call.Cn >= 1 /\ Len(chunks) = call.Cn) =>
        /\ \A a, b \in 1 .. call.Cn :
              a # b => chunks[a].members \cap chunks[b].members = {}
        /\ \A a \in 1 .. call.Cn : Cardinality(chunks[a].members) = chunks[a].length
        /\ UNION {chunks[a].members : a \in 1 .. call.Cn} = SteppedSet
        /\ (call.N0 = 0 /\ call.Nn = 100 /\ call.Ns = 1 /\ call.Cn = 3) =>
              [a \in 1 .. 3 |-> chunks[a].length] = <<34, 34, 32>>

\* C10: once the cancellation flag is true, every worker of a dynamic call
\* starts at most one further invocation of the callable.
C10_EarlyAbort ==
    Dynamic => \A w \in Workers : abort_calls[w] <= 1

\* C12: a dynamic call on a non-empty range with a thread count of 0 is a
\* no-op: it returns normally, launches no worker, invokes nothing and
\* never ends in a division by zero.
C12_ZeroThreads ==
    (Dynamic /\ call.size >= 1 /\ call.threads = 0) =>
        /\ cpc # "crashed"
        /\ CallSlots = {} /\ sink = <<>>
        /\ \A w \in Workers : wpc[w] = "idle"
        /\ result = NoEx

\* what the claim calls a valid override: a positive decimal integer
RECURSIVE DecimalValue(_)
DecimalValue(str) ==
    IF str = <<>> THEN 0
    ELSE DecimalValue(SubSeq(str, 1, Len(str) - 1)) * 10 + DigitVal(str[Len(str)])

ValidEnv(e) ==
    /\ e # NoEnv
    /\ e # <<>>
    /\ \A k \in DOMAIN e : e[k] \in Digits
    /\ DecimalValue(e) >= 1

ExpectedThreads(e) ==
    IF ValidEnv(e)
    THEN Min(ASYNC_MAX_THREADS, Max(ASYNC_MIN_THREADS, DecimalValue(e)))
    ELSE ASYNC_NUM_THREADS

\* C11: runtime_threads() returns the compiled-in default when the override
\* is absent or invalid, the override clamped to [min, max] when it is
\* valid, and the value of the first call on every later call.
C11_RuntimeThreads ==
    \A k \in DOMAIN rt_log : rt_log[k] = ExpectedThreads(first_env)

\* C13: the failure cell is written at most once per call, by the first
\* thrower to get the mutex (arrival order, not chunk order); the other
\* exceptions are dropped and the stored one is raised to the caller.
C13_FirstFailureWins ==
    /\ [][ex_ptr # NoEx => ex_ptr' = ex_ptr]_vars
    /\ [](ex_ptr # NoEx => (lockers # <<>> /\ ex_ptr = cur_ex[lockers[1]]))
    /\ []((Left /\ ex_ptr # NoEx) => (cpc = "raised" /\ result = ex_ptr))

C13_Witness ==
    /\ cpc = "raised"
    /\ lockers = <<1, 0>>
    /\ result = cur_ex[1]
    /\ cur_ex[0] \notin {NoEx, result}

\* C14: a compile-time worker tests the cancellation flag before each index
\* of its sequence, so once the flag is set it invokes the callable on at
\* most one further index.
C14_StaticEarlyAbort ==
    (Static /\ ~call.assume_elided) => \A w \in Workers : abort_calls[w] <= 1

\* the workers that have incremented the completed counter
Counted ==
    {w \in Workers : \/ wpc[w] = "progress"
                     \/ \E k \in DOMAIN sink : sink[k].thread_id = w}

\* C15: a dynamic worker that left its loop early on the cancellation flag
\* neither increments the counter nor invokes the sink; the sink is invoked
\* once per worker that processed its whole chunk.
C15_CancelledNotCounted ==
    Dynamic =>
        /\ \A w \in Counted : it[w] = local_chunk_end[w]
        /\ Left => Len(sink) = Cardinality({w \in 0 .. (threads - 1) :
                                              it[w] = local_chunk_end[w]})

\* C16 as stated: in the order of the sink invocations the values passed
\* are strictly increasing.
C16_Original ==
    Dynamic => \A j, k \in DOMAIN sink : j < k => sink[j].value < sink[k].value

\* C16 amended: the values passed to the sink so far are pairwise distinct
\* and lie in 1 .. completed; the order of the invocations is not the order
\* of the values.
C16_ProgressDistinct ==
    Dynamic =>
        /\ \A j, k \in DOMAIN sink : j # k => sink[j].value # sink[k].value
        /\ \A k \in DOMAIN sink : sink[k].value \in 1 .. completed

C16_Witness ==
    /\ Dynamic
    /\ Len(sink) = 2
    /\ sink[1].value = 2
    /\ sink[2].value = 1

\* C17: exactly T = min(t, n) chunks; with c = floor(n / T) chunk i < T-1
\* is [i*c, (i+1)*c) and the last is [(T-1)*c, n); none is empty; the same
\* boundaries for forward-only and for random-access iterators.
C17_PartitionShape ==
    (Dynamic /\ call.size >= 1 /\ call.threads >= 1) =>
        LET T == actual_threads
            c == call.size \div actual_threads
        IN /\ \A w \in Workers : wpc[w] # "idle" =>
                 /\ w < T
                 /\ local_chunk_begin[w] = w * c
                 /\ local_chunk_end[w] = IF w = T - 1 THEN call.size
                                         ELSE (w + 1) * c
                 /\ local_chunk_begin[w] < local_chunk_end[w]
           /\ cpc \in {"join", "final", "returned", "raised"} =>
                 \A w \in 0 .. (T - 1) : wpc[w] # "idle"

C17_Witness ==
    /\ Dynamic /\ ~call.random_access
    /\ call.size = 3 /\ call.threads = 2
    /\ cpc = "join"
    /\ local_chunk_begin[1] = 1 /\ local_chunk_end[1] = 3

\* C18: for every ordinal the count of chunk_of_sequence satisfies
\* 0 <= count <= ceil(total / thread_count) and offset + count <= total.
C18_CountBound ==
    Static => \A a \in DOMAIN chunks :
        /\ 0 <= chunks[a].count
        /\ chunks[a].count <= (Total + call.Cn - 1) \div call.Cn
        /\ chunks[a].offset + chunks[a].count <= Total

\* C19: under fair scheduling every call eventually returns or raises.
C19_Terminates == <>Left

\* the first element / ordinal of worker w's chunk
FirstOf(w) ==
    IF Dynamic THEN local_chunk_begin[w]
    ELSE w * ((Total + call.Cn - 1) \div call.Cn)

\* C20: a worker invokes the callable on the elements of its chunk in
\* ascending position, one after the other, skipping none.
C20_ChunkOrder ==
    \A w \in Workers :
        /\ calls[w] # <<>> => calls[w][1].elem = FirstOf(w)
        /\ \A k \in 1 .. (Len(calls[w]) - 1) :
              calls[w][k + 1].elem = calls[w][k].elem + 1

C20_Witness ==
    /\ Dynamic /\ Left
    /\ Len(calls[1]) = 2
    /\ Len(calls[0]) = 1

\* C21: no retry: in every state each element / index has been passed to
\* the callable at most once, and a worker whose callable threw invokes
\* the callable on no further element.
C21_AtMostOnce ==
    /\ \A s, t \in CallSlots : CallAt(s).elem = CallAt(t).elem => s = t
    /\ \A w \in Workers : \A k \in DOMAIN calls[w] :
          calls[w][k].elem \in call.f_throws => k = Len(calls[w])

C21_Witness ==
    /\ Dynamic /\ cpc = "raised"
    /\ local_chunk_begin[1] = 1 /\ local_chunk_end[1] = 3
    /\ Len(calls[1]) = 1
    /\ calls[1][1].elem \in call.f_throws
    /\ wpc[1] = "done"

\* C22: forward-only range: the iterator increments made while the chunks
\* of one call are computed amount to exactly one traversal of the range.
C22_SinglePass ==
    (/\ Dynamic /\ ~call.random_access
     /\ call.size >= 1 /\ call.threads >= 1
     /\ cpc \in {"join", "final", "returned", "raised"})
        => advanced = call.size

\* worker w takes the step that evaluates one of the [[assume(!abort)]]:
\* before an element, at the start of a compile-time worker, in a handler
ReachesAssume(w) ==
    \/ LoopCheck(w) /\ it[w] # local_chunk_end[w]
    \/ Catch(w)
    \/ IndexStart(w)
    \/ IndexCatch(w)

\* C23: whenever a thread reaches one of the [[assume(!abort)]] annotations
\* the cancellation flag is false in that state.
C23_AssumeValid ==
    [][\A w \in Workers : ReachesAssume(w) => ~abort]_vars

\* C24: the flag is true only if the failure cell holds an exception, it
\* never goes from true back to false, and once the join loop has finished
\* the flag is true exactly if the cell is non-empty, so that a call that
\* leaves with the flag set has raised.
C24_FlagCellConsistent ==
    /\ [](abort => ex_ptr # NoEx)
    /\ [][abort => abort']_vars
    /\ [](cpc \in {"final", "returned", "raised"}
            => (abort <=> ex_ptr # NoEx))
    /\ []((Left /\ abort) => cpc = "raised")

C24_Witness ==
    /\ Static /\ cpc = "raised"
    /\ abort /\ ex_ptr # NoEx
    /\ Len(lockers) = 2

\* the sink invocations that threw while the failure cell was empty
SinkFailures ==
    {k \in DOMAIN sink : /\ sink[k].value \in call.progress_throws
                         /\ ~sink[k].recorded}

\* C25 as stated: the exception of a sink invocation that throws while no
\* failure is recorded is the one the call raises.
C25_Original ==
    (Dynamic /\ Left) =>
        \A k \in SinkFailures : result = <<"progress", sink[k].value>>

\* C25 amended: such a worker has processed its whole chunk and has been
\* counted; the counter never goes down; the call raises with the flag
\* set, and raises the sink's exception if that worker is the first to
\* take the failure-cell mutex (always so when nothing else throws).
C25_SinkFailure ==
    /\ [][completed' >= completed]_vars
    /\ [](Dynamic => \A k \in SinkFailures :
            /\ it[sink[k].thread_id] = local_chunk_end[sink[k].thread_id]
            /\ sink[k].value <= completed
            /\ Left =>
                 /\ cpc = "raised" /\ abort /\ result = ex_ptr
                 /\ lockers # <<>>
                 /\ lockers[1] = sink[k].thread_id
                       => result = <<"progress", sink[k].value>>
                 /\ (\A v \in Workers \ {sink[k].thread_id} : cur_ex[v] = NoEx)
                       => result = <<"progress", sink[k].value>>)

C25_Witness ==
    /\ Dynamic /\ cpc = "raised"
    /\ call.f_throws = {}
    /\ completed = 2
    /\ result = <<"progress", 2>>
    /\ \E k \in SinkFailures : sink[k].value = 2

====
